---- MODULE Spec2Model ----
(***************************************************************************)
(* bulk_sync/utils.py of django-bulk-sync: records are staged in a         *)
(* session-scoped temporary table (move_records_to_temporary_table) and    *)
(* reconciled with the model's table by bulk_sync, which composes two SQL  *)
(* scripts from column-name sets and executes them inside                  *)
(* transaction.atomic().                                                   *)
(*                                                                         *)
(* Python strings are sequences of one-character strings, so that joining, *)
(* iterating over a string and the store's reading of the generated text   *)
(* are computed the way the code and the store compute them.  The store is *)
(* PostgreSQL, the only backend with the data-modifying WITH ... RETURNING *)
(* statements the scripts use; a table is the sequence of its rows.        *)
(***************************************************************************)
EXTENDS Integers, Sequences, FiniteSets, TLC

\* ------------------------------------------------------------------ bounds
\* column values are 1..MaxVal
MaxVal == 2
\* rows of the target table at start
MaxTargetRows == 1
\* records passed to move_records_to_temporary_table
MaxRecords == 2

\* ------------------------------------------------------- the synced model
\* model_klass has the fields id and v, its table is "item" and the temporary
\* model's table is "temp_item"
Id == <<"i", "d">>
V == <<"v">>
Columns == {Id, V}
db_table == "item"
temp_db_table == "temp_item"

\* the value of a column the INSERT does not name
NULL == 0
Values == 1..MaxVal
Rows == [Columns -> Values]
\* an object of another class than the model: it has the attribute id and no
\* attribute v
Foreign == [{Id} -> Values]

\* Python's None, for an optional list argument that is not supplied: a value
\* that is no list of column names
None == {<<"N", "o", "n", "e">>}
\* a session's temporary table: whether the session has one, and its rows
NoTable == [exists |-> FALSE, rows |-> <<>>]
Table(rows) == [exists |-> TRUE, rows |-> rows]

\* ---------------------------------------------------------- Python strings
CommaSpace == <<",", " ">>
AndSep == <<" ", "A", "N", "D", " ">>
OriginDot == <<"o", "r", "i", "g", "i", "n", ".">>
UpstreamDot == <<"u", "p", "s", "t", "r", "e", "a", "m", ".">>
Equals == <<" ", "=", " ">>
Origin == <<"o", "r", "i", "g", "i", "n">>
Upstream == <<"u", "p", "s", "t", "r", "e", "a", "m">>

\* sep.join(parts)
RECURSIVE join(_, _)
join(sep, parts) ==
    IF parts = <<>> THEN <<>>
    ELSE IF Len(parts) = 1 THEN parts[1]
    ELSE parts[1] \o sep \o join(sep, Tail(parts))

\* the elements of a Python set in its iteration order, which follows the
\* process's string hashing (order) and not the order of insertion
iterate(set, order) == SelectSeq(order, LAMBDA name : name \in set)

\* set(key_fields): the elements of a list
set(list) == {list[i] : i \in DOMAIN list}

\* ------------------------------------------- the statements bulk_sync builds
\* two other column sets, for comparison: nothing subtracted, and the
\* subtraction applied to the union
insert_fields_without_exclusion(key_fields, fields, exclude_fields, order) ==
    join(CommaSpace, iterate(set(key_fields) \cup fields, order))
insert_fields_union_first(key_fields, fields, exclude_fields, order) ==
    join(CommaSpace, iterate((set(key_fields) \cup fields) \ exclude_fields, order))

\* insert_fields: the names of set_key_fields | (set_fields - set_exclude_fields)
\* ("-" binds tighter than "|"), joined in the set's iteration order
insert_fields(key_fields, fields, exclude_fields, order) ==
    join(CommaSpace, iterate(set(key_fields) \cup (fields \ exclude_fields), order))

lookup_fields(key_fields, order) ==
    join(CommaSpace, iterate(set(key_fields), order))

\* origin_fields: one entry per element of insert_fields, which is a string
origin_fields(insert_text) ==
    join(CommaSpace, [i \in 1..Len(insert_text) |-> OriginDot \o <<insert_text[i]>>])

join_filter(key_fields) ==
    join(AndSep, [i \in 1..Len(key_fields) |->
        OriginDot \o key_fields[i] \o Equals \o UpstreamDot \o key_fields[i]])

effective_update_fields(fields, exclude_fields) == fields \ exclude_fields

updated_fields(fields, exclude_fields, order) ==
    LET names == iterate(effective_update_fields(fields, exclude_fields), order)
    IN  join(CommaSpace, [i \in 1..Len(names) |->
            UpstreamDot \o names[i] \o Equals \o OriginDot \o names[i]])

\* ------------------------------------------------- the store reads the text
Punctuation == {",", ".", "=", "(", ")"}
Comma == <<",">>
Dot == <<".">>
EqSign == <<"=">>
And == <<"A", "N", "D">>

\* the tokens of a piece of SQL text: runs of identifier characters and single
\* punctuation characters, blanks dropped
RECURSIVE Scan(_, _, _)
Scan(text, i, word) ==
    LET flush == IF word = <<>> THEN <<>> ELSE <<word>>
    IN  IF i > Len(text) THEN flush
        ELSE IF text[i] = " " THEN flush \o Scan(text, i + 1, <<>>)
        ELSE IF text[i] \in Punctuation THEN flush \o <<<<text[i]>>>> \o Scan(text, i + 1, <<>>)
        ELSE Scan(text, i + 1, Append(word, text[i]))

Tokens(text) == Scan(text, 1, <<>>)

IsIdentifier(token) == token # <<>> /\ token[1] \notin Punctuation /\ token # And

\* the token groups between occurrences of a separator token
RECURSIVE SplitAt(_, _, _, _)
SplitAt(tokens, sep, i, group) ==
    IF i > Len(tokens) THEN <<group>>
    ELSE IF tokens[i] = sep THEN <<group>> \o SplitAt(tokens, sep, i + 1, <<>>)
    ELSE SplitAt(tokens, sep, i + 1, Append(group, tokens[i]))

Groups(tokens, sep) == IF tokens = <<>> THEN <<>> ELSE SplitAt(tokens, sep, 1, <<>>)

\* a column reference: name or qualifier.name
IsColumnRef(group) ==
    \/ Len(group) = 1 /\ IsIdentifier(group[1])
    \/ Len(group) = 3 /\ IsIdentifier(group[1]) /\ group[2] = Dot /\ IsIdentifier(group[3])

ColumnRef(group) ==
    IF Len(group) = 1 THEN [qualifier |-> <<>>, column |-> group[1]]
    ELSE [qualifier |-> group[1], column |-> group[3]]

\* a comma-separated list of names: (ok, items)
NameList(text) ==
    LET groups == Groups(Tokens(text), Comma)
        ok == \A i \in DOMAIN groups : Len(groups[i]) = 1 /\ IsIdentifier(groups[i][1])
    IN  [ok |-> ok, items |-> IF ok THEN [i \in DOMAIN groups |-> groups[i][1]] ELSE <<>>]

\* a comma-separated list of column references
ColumnRefList(text) ==
    LET groups == Groups(Tokens(text), Comma)
        ok == \A i \in DOMAIN groups : IsColumnRef(groups[i])
    IN  [ok |-> ok, items |-> IF ok THEN [i \in DOMAIN groups |-> ColumnRef(groups[i])] ELSE <<>>]

\* a list of "ref = ref" separated by sep
IsEquality(group) ==
    \E k \in DOMAIN group :
        /\ group[k] = EqSign
        /\ IsColumnRef(SubSeq(group, 1, k - 1))
        /\ IsColumnRef(SubSeq(group, k + 1, Len(group)))

Equality(group) ==
    LET k == CHOOSE k \in DOMAIN group : group[k] = EqSign
    IN  [left |-> ColumnRef(SubSeq(group, 1, k - 1)),
         right |-> ColumnRef(SubSeq(group, k + 1, Len(group)))]

EqualityList(text, sep) ==
    LET groups == Groups(Tokens(text), sep)
        ok == \A i \in DOMAIN groups : IsEquality(groups[i])
    IN  [ok |-> ok, items |-> IF ok THEN [i \in DOMAIN groups |-> Equality(groups[i])] ELSE <<>>]

\* ------------------------------------------------------------- the store
\* a session's view of the database: the rows of the model's table, and the
\* rows of the session's temporary table when it has one
Database(target_rows, temp_table) ==
    [target |-> target_rows, temp |-> temp_table.rows, has_temp |-> temp_table.exists]
TempTable(db) == [exists |-> db.has_temp, rows |-> db.temp]

\* for comparison: a catalog in which the name inserted_rows is known to every
\* statement
Catalog_with_inserted_rows(db) ==
    {db_table, "inserted_rows"} \cup (IF db.has_temp THEN {temp_db_table} ELSE {})

\* the relations a statement of the session can name
Catalog(db) == {db_table} \cup (IF db.has_temp THEN {temp_db_table} ELSE {})

Relation(db, name) == IF name = db_table THEN db.target ELSE db.temp

\* the temporary table is created AS SELECT * FROM the model's table: the two
\* relations have the same columns
RelationColumns(name) == Columns

\* a = b in SQL: never true of a NULL
SqlEqual(a, b) == a # NULL /\ b # NULL /\ a = b

\* the value of a column reference for a pair of joined rows
RefValue(ref, origin_row, upstream_row) ==
    IF ref.qualifier = Upstream THEN upstream_row[ref.column] ELSE origin_row[ref.column]

\* for comparison: a filter no pair of rows satisfies
Joined_never(filter, origin_row, upstream_row) == FALSE

\* WHERE {join_filter} for a row of the temporary table and a row of the table
Joined(filter, origin_row, upstream_row) ==
    \A i \in DOMAIN filter :
        SqlEqual(RefValue(filter[i].left, origin_row, upstream_row),
                 RefValue(filter[i].right, origin_row, upstream_row))

NoDuplicates(seq) == \A i, j \in DOMAIN seq : seq[i] = seq[j] => i = j

KnownFilter(filter) ==
    \A i \in DOMAIN filter :
        /\ filter[i].left.qualifier \in {Origin, Upstream}
        /\ filter[i].right.qualifier \in {Origin, Upstream}
        /\ filter[i].left.column \in Columns
        /\ filter[i].right.column \in Columns

\* what cursor.execute and fetchone()[0] give: an error or a scalar, and the
\* session's view when the script ended
Failed(db) == [error |-> TRUE, value |-> NULL, db |-> db]
Fetched(db, value) == [error |-> FALSE, value |-> value, db |-> db]

\* the first statement of insert_sql: WITH inserted_rows AS (INSERT ... SELECT
\* ... WHERE NOT EXISTS (...) RETURNING ...) DELETE FROM the temporary table.
\* Both parts read the rows as they were when the statement started.
InsertAndDrain(db, columns, selected, filter, returned) ==
    LET unmatched == SelectSeq(db.temp, LAMBDA row :
            ~ \E i \in DOMAIN db.target : Joined(filter, row, db.target[i]))
        Position(c) == CHOOSE j \in DOMAIN columns : columns[j] = c
        NewRow(row) == [c \in Columns |->
            IF \E j \in DOMAIN columns : columns[j] = c
            THEN row[selected[Position(c)].column] ELSE NULL]
        inserted_rows == [i \in DOMAIN unmatched |-> NewRow(unmatched[i])]
        key == returned[1]
        drained == SelectSeq(db.temp, LAMBDA row :
            ~ \E i \in DOMAIN inserted_rows : SqlEqual(row[key], inserted_rows[i][key]))
    IN  Database(db.target \o inserted_rows, Table(drained))

\* cursor.execute(insert_sql): the script is parsed as a whole, then its two
\* statements are analysed and run one after the other.  inserted_rows names a
\* relation only inside the first statement; the second statement's FROM
\* inserted_rows is looked up among the tables of the database.
run_insert_sql(db, columns, selected, filter, returned) ==
    LET syntax ==
            /\ columns.ok /\ columns.items # <<>>
            /\ selected.ok
            /\ filter.ok /\ filter.items # <<>>
            /\ returned.ok /\ Len(returned.items) = 1
        analysed ==
            /\ {db_table, temp_db_table} \subseteq Catalog(db)
            /\ \A i \in DOMAIN columns.items : columns.items[i] \in Columns
            /\ NoDuplicates(columns.items)
            /\ Len(selected.items) = Len(columns.items)
            /\ \A i \in DOMAIN selected.items :
                /\ selected.items[i].qualifier \in {<<>>, Origin}
                /\ selected.items[i].column \in Columns
            /\ KnownFilter(filter.items)
            /\ returned.items[1] \in Columns
        after == InsertAndDrain(db, columns.items, selected.items, filter.items, returned.items)
    IN  IF ~ syntax THEN Failed(db)
        ELSE IF ~ analysed THEN Failed(db)
        ELSE IF "inserted_rows" \notin Catalog(after) THEN Failed(after)
        ELSE Fetched(after, Len(Relation(after, "inserted_rows")))

\* the store reads the four pieces the statement was formatted from
execute_insert_sql(db, insert_text, origin_text, filter_text, lookup_text) ==
    run_insert_sql(db, NameList(insert_text), ColumnRefList(origin_text),
                   EqualityList(filter_text, And), NameList(lookup_text))

\* DELETE ... RETURNING COUNT(*) AS deleted_count
delete_returning == <<"C", "O", "U", "N", "T", "(", "*", ")", " ", "A", "S", " ",
                      "d", "e", "l", "e", "t", "e", "d", "_", "c", "o", "u", "n", "t">>
AggregateNames == {<<"C", "O", "U", "N", "T">>}
HasAggregate(text) ==
    \E i \in DOMAIN Tokens(text) :
        /\ Tokens(text)[i] \in AggregateNames
        /\ i < Len(Tokens(text))
        /\ Tokens(text)[i + 1] = <<"(">>

\* the column a SET target names: of "a.b" it is a, with b a field of it
SetTarget(ref) == IF ref.qualifier = <<>> THEN ref.column ELSE ref.qualifier

\* WITH updated_rows AS (UPDATE ... SET ... FROM ... WHERE ... RETURNING ...)
\* DELETE FROM the temporary table ... RETURNING ...
UpdateAndDrain(db, assignments, filter, returned) ==
    LET Match(row) == {i \in DOMAIN db.temp : Joined(filter, db.temp[i], row)}
        Source(row) == db.temp[CHOOSE i \in Match(row) : \A j \in Match(row) : i <= j]
        NewRow(row) == [c \in Columns |->
            IF \E j \in DOMAIN assignments : SetTarget(assignments[j].left) = c
            THEN Source(row)[assignments[CHOOSE j \in DOMAIN assignments :
                                SetTarget(assignments[j].left) = c].right.column]
            ELSE row[c]]
        updated == [i \in DOMAIN db.target |->
            IF Match(db.target[i]) = {} THEN db.target[i] ELSE NewRow(db.target[i])]
        key == returned[1]
        drained == SelectSeq(db.temp, LAMBDA row :
            ~ \E i \in DOMAIN updated :
                Match(db.target[i]) # {} /\ SqlEqual(row[key], updated[i][key]))
    IN  Database(updated, Table(drained))

\* cursor.execute(update_sql): one statement.  A qualified SET target names the
\* column before the dot; an unqualified RETURNING column that both joined
\* relations have is ambiguous; RETURNING takes no aggregate.
run_update_sql(db, assignments, filter, returned) ==
    LET syntax ==
            /\ assignments.ok /\ assignments.items # <<>>
            /\ filter.ok /\ filter.items # <<>>
            /\ returned.ok /\ Len(returned.items) = 1
        analysed ==
            /\ {db_table, temp_db_table} \subseteq Catalog(db)
            /\ \A i \in DOMAIN assignments.items :
                SetTarget(assignments.items[i].left) \in Columns
            /\ KnownFilter(filter.items)
            /\ returned.items[1] \in RelationColumns(db_table)
            /\ ~ (returned.items[1] \in RelationColumns(temp_db_table))
            /\ ~ HasAggregate(delete_returning)
        after == UpdateAndDrain(db, assignments.items, filter.items, returned.items)
    IN  IF ~ syntax THEN Failed(db)
        ELSE IF ~ analysed THEN Failed(db)
        ELSE Fetched(after, Len(db.temp) - Len(after.temp))

execute_update_sql(db, updated_text, filter_text, lookup_text) ==
    run_update_sql(db, EqualityList(updated_text, Comma),
                   EqualityList(filter_text, And), NameList(lookup_text))

\* ------------------------------------------------------------- bulk_sync
\* the stats a call returns: none, or one dictionary
NoStats == <<>>
Stats(i, u, d) == <<[inserted |-> i, updated |-> u, deleted |-> d]>>
NoText == <<>>

\* how a call ended: returned {"stats": stats} or raised; the session's view
\* inside the transaction when it ended (reached); the pieces of SQL it built
Returned(stats, reached, built) ==
    [outcome |-> "return", error |-> "none", stats |-> stats, reached |-> reached,
     insert_fields |-> built.insert_fields, origin_fields |-> built.origin_fields,
     updated_fields |-> built.updated_fields, scripts |-> built.scripts]
Raised(error, reached, built) ==
    [outcome |-> "raise", error |-> error, stats |-> NoStats, reached |-> reached,
     insert_fields |-> built.insert_fields, origin_fields |-> built.origin_fields,
     updated_fields |-> built.updated_fields, scripts |-> built.scripts]
Built(insert_text, origin_text, updated_text, scripts) ==
    [insert_fields |-> insert_text, origin_fields |-> origin_text,
     updated_fields |-> updated_text, scripts |-> scripts]

\* for comparison: a block whose writes are kept however it ends
atomic_without_rollback(before, reached, raised) == reached

\* with transaction.atomic(): the block's writes are kept when it ends
\* normally and undone when an exception leaves it
atomic(before, reached, raised) == IF raised THEN before ELSE reached

\* the update branch after the insert branch has run: update_sql is formatted,
\* executed and its count fetched
update_branch(created, updated, built) ==
    IF updated.error THEN Raised("ProgrammingError", updated.db, built)
    ELSE Returned(Stats(created.value, updated.value, 0), updated.db, built)

\* the insert branch has executed insert_sql with outcome created
insert_branch(created, key_fields, skip_updates, order, insert_text, updated_text) ==
    IF created.error
    THEN Raised("ProgrammingError", created.db,
                Built(insert_text, origin_fields(insert_text), NoText, <<"insert_sql">>))
    ELSE IF skip_updates
    THEN Returned(Stats(created.value, 0, 0), created.db,
                  Built(insert_text, origin_fields(insert_text), NoText, <<"insert_sql">>))
    ELSE update_branch(created,
                       execute_update_sql(created.db, updated_text,
                                          join_filter(key_fields),
                                          lookup_fields(key_fields, order)),
                       Built(insert_text, origin_fields(insert_text), updated_text,
                             <<"insert_sql", "update_sql">>))

\* the transaction's block, the two sets of names formatted
atomic_block(db, key_fields, skip_creates, skip_updates, order, insert_text, updated_text) ==
    IF ~ skip_creates
    THEN insert_branch(execute_insert_sql(db, insert_text, origin_fields(insert_text),
                                          join_filter(key_fields),
                                          lookup_fields(key_fields, order)),
                       key_fields, skip_updates, order, insert_text, updated_text)
    ELSE IF skip_updates
    THEN Returned(Stats(0, 0, 0), db, Built(NoText, NoText, NoText, <<>>))
    \* join_filter and lookup_fields are assigned in the insert branch only
    ELSE Raised("UnboundLocalError", db, Built(NoText, NoText, updated_text, <<>>))

\* for comparison: a body that, unless skip_deletes, removes the target rows
\* whose key is the key of no staged row and counts them
bulk_sync_body_deleting(db, key_fields, fields, exclude_fields, skip_creates, skip_updates, skip_deletes, order) ==
    LET kept == SelectSeq(db.target, LAMBDA row :
            \E i \in DOMAIN db.temp : \A k \in set(key_fields) : db.temp[i][k] = row[k])
    IN  IF fields = None \/ exclude_fields = None
        THEN Raised("TypeError", db, Built(NoText, NoText, NoText, <<>>))
        ELSE IF ~ skip_deletes
        THEN Returned(Stats(0, 0, Len(db.target) - Len(kept)),
                      Database(kept, TempTable(db)), Built(NoText, NoText, NoText, <<>>))
        ELSE atomic_block(db, key_fields, skip_creates, skip_updates, order,
                          insert_fields(key_fields, fields, exclude_fields, order),
                          updated_fields(fields, exclude_fields, order))

\* the body of bulk_sync for a session whose view of the database is db
bulk_sync_body(db, key_fields, fields, exclude_fields, skip_creates, skip_updates, skip_deletes, order) ==
    IF fields = None \/ exclude_fields = None
    THEN Raised("TypeError", db, Built(NoText, NoText, NoText, <<>>))
    ELSE atomic_block(db, key_fields, skip_creates, skip_updates, order,
                      insert_fields(key_fields, fields, exclude_fields, order),
                      updated_fields(fields, exclude_fields, order))

\* --------------------------------------- move_records_to_temporary_table
\* batch_size=None: one batch
NoBatchSize == 0

\* bulk_create(instances, batch_size): the rows written, batch after batch
RECURSIVE bulk_create(_, _)
bulk_create(instances, batch_size) ==
    IF batch_size = NoBatchSize \/ Len(instances) <= batch_size THEN instances
    ELSE SubSeq(instances, 1, batch_size)
         \o bulk_create(SubSeq(instances, batch_size + 1, Len(instances)), batch_size)

\* CREATE TEMPORARY TABLE temp_item AS SELECT * FROM item LIMIT 0: an empty
\* table, or an error when the session already has a relation of that name
create_temporary_table(db) ==
    IF temp_db_table \in Catalog(db) THEN Failed(db)
    ELSE Fetched(Database(db.target, Table(<<>>)), NULL)

\* bulk_create reads the value of every field of the temporary model off each
\* instance
HasFields(instance) == DOMAIN instance = Columns

\* model_klass is the class of instances[0]; nothing compares the classes of the
\* other instances with it.  The table is created in autocommit mode;
\* bulk_create runs in a transaction of its own and writes no row when reading
\* an attribute fails.
move_records_body(db, instances, batch_size) ==
    LET created == create_temporary_table(db)
        nothing == Built(NoText, NoText, NoText, <<>>)
    IN  IF Len(instances) = 0 THEN Returned(NoStats, db, nothing)
        ELSE IF created.error THEN Raised("ProgrammingError", db, nothing)
        ELSE IF \E i \in DOMAIN instances : ~ HasFields(instances[i])
        THEN Raised("AttributeError", created.db, nothing)
        ELSE Returned(NoStats,
                      Database(db.target, Table(created.db.temp \o bulk_create(instances, batch_size))),
                      nothing)

\* ----------------------------------------------------------------- state
VARIABLES
    target,     \* the rows of the model's table, as committed
    temp,       \* per session: the rows of its temporary table, or NoTable
    order,      \* the iteration order of this process's sets of names
    call,       \* the call that last ended and has not been collected yet
    result,     \* how it ended
    before,     \* the session's view of the database when it started
    insert_ran  \* an insert step has run since the caller's records were staged

vars == <<target, temp, order, call, result, before, insert_ran>>

Sessions == {"s1", "s2"}
\* the session of the calling thread
Callers == {"s1"}

Orders == {<<Id, V>>, <<V, Id>>}
KeyLists == {<<>>, <<Id>>, <<V>>, <<Id, V>>, <<V, Id>>}
FieldLists == {None} \cup SUBSET Columns

RECURSIVE Lists(_, _)
Lists(elements, n) ==
    IF n = 0 THEN {<<>>}
    ELSE Lists(elements, n - 1)
         \cup {Append(l, x) : l \in {m \in Lists(elements, n - 1) : Len(m) = n - 1},
                              x \in elements}

\* the lists of instances a caller stages for the model: the first one is an
\* instance of the model
InstanceLists ==
    {l \in Lists(Rows \cup Foreign, MaxRecords) : l # <<>> => l[1] \in Rows}

\* a table in which no two rows agree on any column
Unique(rows) == \A i, j \in DOMAIN rows : i # j => \A c \in Columns : rows[i][c] # rows[j][c]

\* for comparison: a temporary table that is the same relation in every session
shared_temp(temps, s) == temps["s1"]

\* the relation the name of the temporary table denotes in session s: a
\* temporary table belongs to the session that created it
session_temp(temps, s) == temps[s]

Idle == [op |-> "none", session |-> "none", key_fields |-> <<>>, fields |-> None,
         exclude_fields |-> None, skip_creates |-> TRUE, skip_updates |-> TRUE,
         skip_deletes |-> TRUE, instances |-> <<>>, rerun |-> FALSE]
NoResult == Returned(NoStats, Database(<<>>, NoTable), Built(NoText, NoText, NoText, <<>>))

Init ==
    /\ target \in {rows \in Lists(Rows, MaxTargetRows) : Unique(rows)}
    /\ temp = [s \in Sessions |-> NoTable]
    /\ order \in Orders
    /\ call = Idle
    /\ result = NoResult
    /\ before = Database(<<>>, NoTable)
    /\ insert_ran = FALSE

\* move_records_to_temporary_table(instances, batch_size) in session s; the
\* connection is in autocommit mode
move_records_to_temporary_table(s, instances, batch_size) ==
    LET db == Database(target, session_temp(temp, s))
        ended == move_records_body(db, instances, batch_size)
    IN  /\ call = Idle
        /\ call' = [Idle EXCEPT !.op = "move_records_to_temporary_table", !.session = s,
                                !.instances = instances]
        /\ result' = ended
        /\ before' = db
        /\ temp' = [temp EXCEPT ![s] = TempTable(ended.reached)]
        /\ insert_ran' = (insert_ran /\ TempTable(ended.reached) = temp[s])
        /\ UNCHANGED <<target, order>>

\* bulk_sync(model_klass, temp_model_klass, key_fields, fields, exclude_fields,
\* skip_creates, skip_updates, skip_deletes) in session s
bulk_sync(s, key_fields, fields, exclude_fields, skip_creates, skip_updates, skip_deletes) ==
    /\ call = Idle
    /\ \E db \in {Database(target, session_temp(temp, s))} :
       \E ended \in {bulk_sync_body(db, key_fields, fields, exclude_fields,
                                    skip_creates, skip_updates, skip_deletes, order)} :
       \E after \in {atomic(db, ended.reached, ended.outcome = "raise")} :
        /\ call' = [Idle EXCEPT !.op = "bulk_sync", !.session = s,
                                !.key_fields = key_fields, !.fields = fields,
                                !.exclude_fields = exclude_fields,
                                !.skip_creates = skip_creates,
                                !.skip_updates = skip_updates,
                                !.skip_deletes = skip_deletes,
                                !.rerun = insert_ran /\ ~ skip_creates]
        /\ result' = ended
        /\ before' = db
        /\ target' = after.target
        /\ temp' = [temp EXCEPT ![s] = TempTable(after)]
        /\ insert_ran' = (insert_ran \/ "insert_sql" \in set(ended.scripts))
        /\ UNCHANGED order

\* the caller has the call's result or exception and goes on
Continue ==
    /\ call # Idle
    /\ call' = Idle
    /\ result' = NoResult
    /\ before' = Database(<<>>, NoTable)
    /\ UNCHANGED <<target, temp, order, insert_ran>>

Next ==
    \/ \E s \in Callers, instances \in InstanceLists, batch_size \in 0..MaxRecords :
        move_records_to_temporary_table(s, instances, batch_size)
    \/ \E s \in Callers, key_fields \in KeyLists, fields \in FieldLists,
          exclude_fields \in FieldLists, skip_creates \in BOOLEAN,
          skip_updates \in BOOLEAN, skip_deletes \in BOOLEAN :
        bulk_sync(s, key_fields, fields, exclude_fields, skip_creates, skip_updates, skip_deletes)
    \/ Continue

Spec == Init /\ [][Next]_vars

\* two threads, each with its own connection, stage records and call bulk_sync
\* in any order; the calls are those with the field lists supplied
SessionKeyLists == {<<Id>>, <<V>>}
SessionFieldLists == {{}, {V}}
NextSessions ==
    \/ \E s \in Sessions, instances \in Lists(Rows, MaxRecords) :
        move_records_to_temporary_table(s, instances, NoBatchSize)
    \/ \E s \in Sessions, key_fields \in SessionKeyLists, fields \in SessionFieldLists,
          skip_creates \in BOOLEAN, skip_updates \in BOOLEAN :
        bulk_sync(s, key_fields, fields, {}, skip_creates, skip_updates, TRUE)
    \/ Continue

SpecSessions == Init /\ [][NextSessions]_vars

\* -------------------------------------------------------- the properties
IsSync == call.op = "bulk_sync"
Supplied == call.fields # None /\ call.exclude_fields # None
KeySet == set(call.key_fields)
Staged == before.has_temp /\ before.temp # <<>>
UniqueKeys(rows, keys) ==
    \A i, j \in DOMAIN rows : i # j => \E k \in keys : rows[i][k] # rows[j][k]
\* a call the contract covers: key fields given, field lists supplied, records
\* staged, no two staged rows and no two target rows with the same key
Regular ==
    /\ IsSync /\ Supplied /\ call.key_fields # <<>> /\ Staged
    /\ UniqueKeys(before.temp, KeySet) /\ UniqueKeys(before.target, KeySet)
ReturnedStats(i, u, d) == result.outcome = "return" /\ result.stats = Stats(i, u, d)

\* the statements the call built, as the store reads them
InsertBuilt == "insert_sql" \in set(result.scripts)
UpdateListBuilt == result.error = "UnboundLocalError" \/ "update_sql" \in set(result.scripts)
InsertColumns == set(NameList(result.insert_fields).items)
UpdateColumns ==
    {EqualityList(result.updated_fields, Comma).items[i].left.column :
        i \in DOMAIN EqualityList(result.updated_fields, Comma).items}
\* the rows the transaction had added to the table when the call ended
AddedRows ==
    {result.reached.target[i] : i \in (Len(before.target) + 1)..Len(result.reached.target)}

\* the reference upsert of the staged rows into the target rows
HasMatch(row, rows, keys) == \E i \in DOMAIN rows : \A k \in keys : rows[i][k] = row[k]
MatchOf(row, rows, keys) == rows[CHOOSE i \in DOMAIN rows : \A k \in keys : rows[i][k] = row[k]]
Unmatched(staged, rows, keys) == SelectSeq(staged, LAMBDA row : ~ HasMatch(row, rows, keys))
Matched(staged, rows, keys) == SelectSeq(staged, LAMBDA row : HasMatch(row, rows, keys))
Projected(rows, columns) ==
    [i \in DOMAIN rows |-> [c \in Columns |-> IF c \in columns THEN rows[i][c] ELSE NULL]]
ReferenceUpsert(rows, staged, keys, fields, exclude_fields) ==
    [i \in DOMAIN rows |->
        IF HasMatch(rows[i], staged, keys)
        THEN [c \in Columns |-> IF c \in fields \ exclude_fields
                                THEN MatchOf(rows[i], staged, keys)[c] ELSE rows[i][c]]
        ELSE rows[i]]
    \o Projected(Unmatched(staged, rows, keys), keys \cup (fields \ exclude_fields))

\* C1: a call with skip_creates=false and skip_updates=false over staged rows
\* with unique keys returns, leaves the target equal to the reference upsert and
\* counts the rows it inserted and updated
C1_Upsert ==
    (Regular /\ ~ call.skip_creates /\ ~ call.skip_updates) =>
        /\ ReturnedStats(Len(Unmatched(before.temp, before.target, KeySet)),
                         Len(Matched(before.temp, before.target, KeySet)), 0)
        /\ target = ReferenceUpsert(before.target, before.temp, KeySet,
                                    call.fields, call.exclude_fields)

\* C2: after a call with all steps enabled over staged rows with unique keys
\* every staged row has been consumed by the insert step or the update step:
\* the temporary table is empty
C2_Partition ==
    (Regular /\ ~ call.skip_creates /\ ~ call.skip_updates /\ ~ call.skip_deletes) =>
        temp[call.session] = Table(<<>>)

\* C3: with no duplicate keys staged and no step skipped, the counts returned
\* add up to the number of staged keys: inserted + updated = rows staged
C3_Conservation ==
    (Regular /\ ~ call.skip_creates /\ ~ call.skip_updates /\ ~ call.skip_deletes) =>
        /\ result.outcome = "return"
        /\ result.stats[1].inserted + result.stats[1].updated = Len(before.temp)

\* C4: a bulk_sync call that ends in an error returns no stats and leaves the
\* table and the temporary table as they were before the call
C4_Atomicity ==
    (IsSync /\ result.outcome = "raise") =>
        /\ result.stats = NoStats
        /\ target = before.target
        /\ temp[call.session] = TempTable(before)
\* the store failed after the call's transaction had inserted rows and drained
\* the temporary table
C4_Witness ==
    /\ IsSync /\ result.outcome = "raise" /\ result.error = "ProgrammingError"
    /\ Len(result.reached.target) > Len(before.target)
    /\ Len(result.reached.temp) < Len(before.temp)
    /\ target = before.target /\ temp[call.session] = TempTable(before)

\* C5: a call with the three skip flags at their defaults returns zero counts
\* and changes nothing, whether or not fields and exclude_fields are supplied
C5_SafeDefaults ==
    (IsSync /\ call.skip_creates /\ call.skip_updates /\ call.skip_deletes) =>
        /\ ReturnedStats(0, 0, 0)
        /\ target = before.target
        /\ temp[call.session] = TempTable(before)

\* C6: a call with skip_creates=true and skip_updates=false runs the update step
\* alone: it returns inserted=0 and updated = the rows matched, the matched
\* target rows carry the staged values and the matched staged rows are gone
C6_UpdateAlone ==
    (Regular /\ call.skip_creates /\ ~ call.skip_updates) =>
        /\ ReturnedStats(0, Len(Matched(before.temp, before.target, KeySet)), 0)
        /\ target = ReferenceUpsert(before.target, Matched(before.temp, before.target, KeySet),
                                    KeySet, call.fields, call.exclude_fields)
        /\ temp[call.session] = Table(Unmatched(before.temp, before.target, KeySet))

\* C7 as stated: a column in both fields and exclude_fields gets no value in
\* the rows the insert statement adds and is in no SET list the call builds
C7_Exclusion_Stated ==
    (IsSync /\ Supplied) =>
        \A c \in call.fields \cap call.exclude_fields :
            /\ \A row \in AddedRows : row[c] = NULL
            /\ UpdateListBuilt => c \notin UpdateColumns
\* C7 amended: a column in both fields and exclude_fields that is no key field
\* is in no INSERT column list and in no SET list the call builds, and the rows
\* the insert statement adds hold no value in it
C7_Exclusion ==
    (IsSync /\ Supplied) =>
        \A c \in (call.fields \cap call.exclude_fields) \ KeySet :
            /\ InsertBuilt => c \notin InsertColumns /\ \A row \in AddedRows : row[c] = NULL
            /\ UpdateListBuilt => c \notin UpdateColumns
\* the insert statement ran and added rows while a column that is no key field
\* was excluded
C7_Witness ==
    /\ IsSync /\ Supplied /\ InsertBuilt /\ AddedRows # {}
    /\ (call.fields \cap call.exclude_fields) \ KeySet # {}

\* C8 as stated: every key field is in the INSERT column list and in the SET
\* list the call builds
C8_KeyColumns_Stated ==
    (IsSync /\ Supplied) =>
        /\ InsertBuilt => KeySet \subseteq InsertColumns
        /\ UpdateListBuilt => KeySet \subseteq UpdateColumns
\* C8 amended: every key field is in the INSERT column list, also when it is
\* excluded or absent from fields; the SET list names exactly the columns of
\* fields minus exclude_fields
C8_KeyColumns ==
    (IsSync /\ Supplied) =>
        /\ InsertBuilt => KeySet \subseteq InsertColumns
        /\ UpdateListBuilt => UpdateColumns = call.fields \ call.exclude_fields
\* an INSERT column list was built for a key field that is excluded and absent
\* from fields
C8_Witness ==
    /\ IsSync /\ Supplied /\ InsertBuilt
    /\ \E k \in KeySet : k \in call.exclude_fields /\ k \notin call.fields /\ k \in InsertColumns

\* C9: a second run of the insert step over the same staged records returns
\* inserted=0 and leaves the target unchanged
C9_InsertIdempotent ==
    (Regular /\ ~ call.skip_creates /\ call.skip_updates /\ call.rerun) =>
        /\ result.outcome = "return"
        /\ result.stats[1].inserted = 0
        /\ target = before.target

\* C10: the insert step adds exactly the staged rows whose key matches no target
\* row, removes exactly those rows from the temporary table and counts them,
\* duplicate staged keys included
C10_InsertStep ==
    (IsSync /\ Supplied /\ call.key_fields # <<>> /\ Staged
        /\ ~ call.skip_creates /\ call.skip_updates) =>
        /\ result.outcome = "return"
        /\ result.stats[1].inserted = Len(Unmatched(before.temp, before.target, KeySet))
        /\ target = before.target \o
            Projected(Unmatched(before.temp, before.target, KeySet),
                      KeySet \cup (call.fields \ call.exclude_fields))
        /\ temp[call.session] = Table(Matched(before.temp, before.target, KeySet))

\* the target rows that have a staged row of the same key, and the call that
\* stages records
IsStaging == call.op = "move_records_to_temporary_table"
MatchedTargetRows == {i \in DOMAIN before.target : HasMatch(before.target[i], before.temp, KeySet)}

\* C11: a call that runs the update step returns, and its updated counter is
\* the number of target rows the update statement overwrote
C11_UpdatedCounter ==
    (IsSync /\ Supplied /\ call.key_fields # <<>> /\ Staged /\ ~ call.skip_updates) =>
        /\ result.outcome = "return"
        /\ result.stats[1].updated = Cardinality(MatchedTargetRows)

\* C12: staging an empty list of records returns without creating a temporary
\* table or writing anything, and a bulk_sync call of a session that has no
\* temporary table returns zero counts and leaves the target unchanged
C12_EmptyInput ==
    /\ (IsStaging /\ call.instances = <<>>) =>
            /\ result.outcome = "return"
            /\ temp[call.session] = TempTable(before)
            /\ target = before.target
    /\ (IsSync /\ Supplied /\ call.key_fields # <<>> /\ ~ before.has_temp) =>
            /\ ReturnedStats(0, 0, 0)
            /\ target = before.target

\* C13: every staging call with records succeeds and leaves the temporary table
\* holding exactly the records of that call
C13_FreshStaging ==
    (IsStaging /\ call.instances # <<>>) =>
        /\ result.outcome = "return"
        /\ temp[call.session] = Table(call.instances)

\* C14: a call with no key fields and a step enabled raises without having sent
\* a statement to the store, and changes neither table
C14_EmptyKeyFields ==
    (IsSync /\ call.key_fields = <<>>
        /\ (~ call.skip_creates \/ ~ call.skip_updates \/ ~ call.skip_deletes)) =>
        /\ result.outcome = "raise"
        /\ result.scripts = <<>>
        /\ target = before.target
        /\ temp[call.session] = TempTable(before)

\* C15: a staging call whose records are not all instances of one class raises
\* before the temporary table is created and before any record is loaded
C15_TypeMismatch ==
    (IsStaging /\ \E i \in DOMAIN call.instances : call.instances[i] \notin Rows) =>
        /\ result.outcome = "raise"
        /\ temp[call.session] = TempTable(before)

\* C16: in every state no two rows of the target agree on the columns of any
\* key, whatever calls were made and whatever keys were staged
C16_KeyUniqueness ==
    \A keys \in (SUBSET Columns) \ {{}} : UniqueKeys(target, keys)
\* a call over staged rows with a duplicate key whose insert statement added
\* two rows of the same key inside the transaction has ended
C16_Witness ==
    /\ IsSync /\ Supplied /\ call.key_fields # <<>> /\ Staged
    /\ ~ UniqueKeys(before.temp, KeySet)
    /\ Len(result.reached.target) > Len(before.target) + 1
    /\ ~ UniqueKeys(result.reached.target, KeySet)
    /\ \A keys \in (SUBSET Columns) \ {{}} : UniqueKeys(target, keys)

\* the rows of a session's temporary table, and a staged row as the insert
\* statement of the call writes it
RowsOf(table) == {table.rows[i] : i \in DOMAIN table.rows}
Written(row, columns) == [c \in Columns |-> IF c \in columns THEN row[c] ELSE NULL]

\* C17: a bulk_sync call of one session reads the rows of that session's
\* temporary table, adds to the target only rows staged by that session, and
\* leaves the temporary table of every other session as it was
C17_Step ==
    \A s \in Sessions :
        (call = Idle /\ call'.op = "bulk_sync" /\ call'.session = s) =>
            /\ \A t \in Sessions \ {s} : temp'[t] = temp[t]
            /\ TempTable(before') = temp[s]
            /\ \A row \in AddedRows' :
                  \E staged \in RowsOf(temp[s]) : row = Written(staged, InsertColumns')
C17_PrivateStaging == [][C17_Step]_vars
\* a call of one session has added rows inside its transaction while another
\* session held staged rows, none of them a row of the caller
C17_Witness ==
    /\ IsSync /\ AddedRows # {}
    /\ \E t \in Sessions \ {call.session} :
          /\ temp[t].exists /\ temp[t].rows # <<>>
          /\ RowsOf(temp[t]) \cap RowsOf(TempTable(before)) = {}

\* the staged rows of a list whose key is the key of a row the target held
\* before the call
StillMatched(rows) == SelectSeq(rows, LAMBDA row : HasMatch(row, before.target, KeySet))
Kept(rows) == \A i \in DOMAIN before.target : i <= Len(rows) /\ rows[i] = before.target[i]

\* C18: a skipped step leaves its rows alone.  With skip_creates no row is
\* added to the target; with skip_updates every row the target held keeps its
\* values and every staged row whose key was in the target stays staged; the
\* counter of a skipped step is 0 in the stats returned.  This holds of the
\* tables inside the call's transaction and of the tables after the call.
C18_SkippedStep ==
    (IsSync /\ Supplied) =>
        /\ call.skip_creates =>
              /\ Len(result.reached.target) = Len(before.target)
              /\ Len(target) = Len(before.target)
              /\ result.outcome = "return" => result.stats[1].inserted = 0
        /\ call.skip_updates =>
              /\ Kept(result.reached.target) /\ Kept(target)
              /\ StillMatched(result.reached.temp) = StillMatched(before.temp)
              /\ StillMatched(temp[call.session].rows) = StillMatched(before.temp)
              /\ result.outcome = "return" => result.stats[1].updated = 0
        /\ call.skip_deletes =>
              /\ Len(result.reached.target) >= Len(before.target)
              /\ result.outcome = "return" => result.stats[1].deleted = 0
\* the insert statement of a call with skip_updates has added the unmatched
\* staged rows and drained them, while a staged row whose key was in the target
\* was there as well
C18_Witness ==
    /\ IsSync /\ Supplied /\ ~ call.skip_creates /\ call.skip_updates
    /\ call.key_fields # <<>>
    /\ Len(result.reached.target) > Len(before.target)
    /\ Len(result.reached.temp) < Len(before.temp)
    /\ StillMatched(before.temp) # <<>>
    /\ StillMatched(result.reached.temp) = StillMatched(before.temp)

\* C19: the SELECT list of the insert statement names the columns of the INSERT
\* column list, one entry per column and in the same order, each read from the
\* temporary table, and these are the key fields and fields minus exclude_fields
C19_OriginColumns ==
    (IsSync /\ Supplied /\ InsertBuilt) =>
        /\ ColumnRefList(result.origin_fields).ok
        /\ Len(ColumnRefList(result.origin_fields).items) = Len(NameList(result.insert_fields).items)
        /\ \A i \in DOMAIN ColumnRefList(result.origin_fields).items :
              /\ ColumnRefList(result.origin_fields).items[i].qualifier = Origin
              /\ ColumnRefList(result.origin_fields).items[i].column
                    = NameList(result.insert_fields).items[i]
        /\ InsertColumns = KeySet \cup (call.fields \ call.exclude_fields)

\* C20: no call removes a row of the target, no call changes a target row whose
\* key is the key of no staged row, inside its transaction or after it, and
\* the deleted counter of the stats returned is 0
C20_NoDelete ==
    IsSync =>
        /\ result.outcome = "return" => result.stats[1].deleted = 0
        /\ \A i \in DOMAIN before.target :
              /\ i <= Len(target) /\ i <= Len(result.reached.target)
              /\ ~ HasMatch(before.target[i], before.temp, KeySet) =>
                    /\ target[i] = before.target[i]
                    /\ result.reached.target[i] = before.target[i]
\* a call with skip_deletes=false has returned while the target held a row
\* whose key is the key of no staged row
C20_Witness ==
    /\ IsSync /\ Supplied /\ call.key_fields # <<>> /\ Staged
    /\ ~ call.skip_deletes
    /\ ReturnedStats(0, 0, 0)
    /\ \E i \in DOMAIN before.target : ~ HasMatch(before.target[i], before.temp, KeySet)
    /\ target = before.target

====
